---- MODULE Spec2Model ----
(***************************************************************************)
(* Model of the multiplayer session layer of 100menvsgorilla.               *)
(*                                                                         *)
(* Server side (src/server/server.js): the connected-socket table, the     *)
(* lobby map, the session-to-lobby map, socket.io room membership, the set  *)
(* of active games, the global player registry and the global host.  Every  *)
(* socket handler is one action: handlers run to completion on the node     *)
(* event loop, so an action is the whole handler, emissions included.       *)
(*                                                                         *)
(* Socket ids are modelled as 1..NumSessions; an id is used by one          *)
(* connection only (socket.io never hands out the same id twice), so a      *)
(* disconnected id is never connected again.  Lobby ids are drawn from a    *)
(* finite pool; a new lobby gets an id that no part of the server state     *)
(* mentions.  Player records {id, name} are modelled by their id; display   *)
(* names are not modelled.  req and out record the request handled by the   *)
(* last step and what it emitted; lobbyGorilla records, per lobby, the      *)
(* gorilla named by the last gameStarted (the server keeps no per-lobby     *)
(* copy of the roles; the clients do).                                      *)
(***************************************************************************)
EXTENDS Integers, Sequences, FiniteSets, TLC

\* ---------------------------------------------------------------- bounds
NumSessions == 3

NumLobbyIds == 1

MaxPlayersInput == 2

\* ------------------------------------------------------- program constants
DefaultMaxPlayers == 4

MinPlayersToStart == 2

\* ------------------------------------------------------------ value sets
Sessions == 1..NumSessions

\* the clients (browser tabs) that connect; each reconnect of a client is a
\* new session
NumClients == 4

Clients == 1..NumClients

LobbyIds == {100 + i : i \in 1..NumLobbyIds}

\* null / undefined
None == 0

\* positions and rotations are opaque to the server: each stands for one
\* vector, 0 for the zero vector
MaxCoord == 1

Coords == 0..MaxCoord

\* a field the client left out of its message
Missing == -1

\* data.position || { x: 0, y: 0, z: 0 }
DefaultPosition == 0

\* data.rotation || { y: 0 }
DefaultRotation == 0

\* the length of the palette of randomColor
PaletteSize == 7

\* colors[Math.floor(Math.random() * colors.length)]: any entry of the palette
RandomColorChoices == 1..PaletteSize

\* the data of a join message
JoinInputs == [position : Coords \cup {Missing}, rotation : Coords \cup {Missing}]

\* the data of a playerUpdate message
Transforms == [position : Coords, rotation : Coords]

\* maxPlayers as sent by a client: 0 stands for a missing (falsy) value, and
\* -1 for the values below 1 that the server stores as they come
MaxPlayersInputs == {-1} \cup 0..MaxPlayersInput

VARIABLES
    clientSockets,   \* set of connected socket ids            (clientSockets)
    gone,            \* socket ids that have disconnected (ids are never reused)
    lobbies,         \* lobby id -> lobby record                (lobbies)
    playerLobbyMap,  \* socket id -> lobby id                   (playerLobbyMap)
    rooms,           \* lobby id -> set of sockets in the socket.io room
    activeGames,     \* set of lobby ids                        (activeGames)
    gorillaPlayerId, \* gameEntities.gorilla.playerId
    players,         \* global registry, ids in insertion order (players)
    transforms,      \* registered id -> stored position and rotation (players[id])
    colors,          \* registered id -> index of its color in the palette (players[id].color)
    hostId,          \* global host                             (hostId)
    lobbyGorilla,    \* lobby id -> the member the last gameStarted for it made gorilla
    req,             \* the request handled by the last step
    out,             \* the emit calls of the last step, in order
    \* ---- one client (MultiplayerManager) and what the server tells it
    connected,        \* the client's socket is connected       (socket.connected)
    awaitingSnapshot, \* its join is on the way, existingPlayers not yet received
    present,          \* remote sessions registered at the server
    left,             \* remote sessions that have disconnected (ids are never reused)
    remotePlayersMap, \* remote id -> [obj, isPlaceholder]      (remotePlayersMap)
    scene,            \* the objects that are in the scene      (scene.add / scene.remove)
    objs,             \* every object created for a remote session, in creation order
    loaders,          \* the loadRemotePlayerModel calls that are waiting for a model
    \* ---- the client's update timer
    localTransform,   \* localPlayer.group.position and rotation.y
    lastSent,         \* {the transform last sent}, empty before the first send
    updateInterval,   \* this.updateInterval holds a timer      (updateInterval)
    timers,           \* the number of setInterval timers of startSendingUpdates that run
    inGame,           \* the client is in a game                (inGame)
    localHits,        \* how often the local player was damaged (localPlayer.onAttacked)
    \* ---- the clients (browser tabs) of the sessions and what they believe
    socketOf,         \* client -> the id of its socket, None while it has none (socket.id)
    lobbyManager,     \* client -> [currentLobby, isHost]       (LobbyManager)
    multiplayer       \* client -> [isHost, inGame, remotes]    (MultiplayerManager)

\* the server's state
serverVars == <<clientSockets, gone, lobbies, playerLobbyMap, rooms, activeGames,
                gorillaPlayerId, players, transforms, colors, hostId, lobbyGorilla>>

\* the remote-player bookkeeping of the client
remoteVars == <<connected, awaitingSnapshot, present, left, remotePlayersMap, scene,
                objs, loaders>>

\* the update timer of the client
limiterVars == <<localTransform, lastSent, updateInterval, timers, inGame>>

\* the local player of the client
avatarVars == <<localHits>>

\* what the clients of the sessions believe about lobby, host and gorilla
mirrorVars == <<socketOf, lobbyManager, multiplayer>>

clientVars == <<remoteVars, limiterVars, avatarVars, mirrorVars>>

vars == <<serverVars, req, out, clientVars>>

\* ---------------------------------------------------------------- helpers
Ids(seq) == {seq[i] : i \in DOMAIN seq}

\* Array.prototype.filter((p) => p.id !== id)
FilterOut(seq, id) == SelectSeq(seq, LAMBDA p : p # id)

\* delete map[key]
Delete(map, key) == [k \in DOMAIN map \ {key} |-> map[k]]

\* map[key] = val
Put(map, key, val) == [k \in DOMAIN map \cup {key} |-> IF k = key THEN val ELSE map[k]]

\* one emit call: the set of sockets it is delivered to, the event, the payload
Emit(to, type, body) == [to |-> to, type |-> type, body |-> body]

LobbyError(s, message) == Emit({s}, "lobbyError", message)

Request(op, s, arg) == [op |-> op, sid |-> s, arg |-> arg]

\* broadcastLobbiesList: the lobbies not in a game, to every connected client
BroadcastLobbiesList(lobs, conn) ==
    Emit(conn, "lobbiesList",
         [l \in {k \in DOMAIN lobs : ~lobs[k].inGame} |->
             [id |-> l, players |-> lobs[l].players,
              maxPlayers |-> lobs[l].maxPlayers, hostId |-> lobs[l].hostId]])

\* generateLobbyId: a random 7-character id; it is modelled as an id that
\* nothing in the server state mentions (the least such id of the pool: ids
\* are opaque, so which fresh id is drawn does not matter)
UnusedLobbyIds ==
    {l \in DOMAIN rooms : /\ l \notin DOMAIN lobbies
                      /\ l \notin activeGames
                      /\ l \notin DOMAIN lobbyGorilla
                      /\ rooms[l] = {}
                      /\ \A s \in DOMAIN playerLobbyMap : playerLobbyMap[s] # l}

FreshLobbyIds ==
    {l \in UnusedLobbyIds : \A k \in UnusedLobbyIds : l <= k}

\* maxPlayers || 4
EffectiveMaxPlayers(maxPlayers) ==
    IF maxPlayers = 0 THEN DefaultMaxPlayers ELSE maxPlayers

\* the client after construction: not connected, nothing known, nothing sent
ClientInit ==
    /\ connected = FALSE
    /\ awaitingSnapshot = FALSE
    /\ present = {}
    /\ left = {}
    /\ remotePlayersMap = <<>>
    /\ scene = {}
    /\ objs = <<>>
    /\ loaders = {}
    /\ localTransform = [x |-> 0, y |-> 0, z |-> 0, ry |-> 0]
    /\ lastSent = {}
    /\ updateInterval = FALSE
    /\ timers = 0
    /\ inGame = FALSE
    /\ localHits = 0
    /\ socketOf = [c \in Clients |-> None]
    /\ lobbyManager = [c \in Clients |-> [currentLobby |-> None, isHost |-> FALSE]]
    /\ multiplayer = [c \in Clients |->
                        [isHost |-> FALSE, inGame |-> FALSE, remotes |-> {}]]

Init ==
    /\ clientSockets = {}
    /\ gone = {}
    /\ lobbies = <<>>
    /\ playerLobbyMap = <<>>
    /\ rooms = [l \in LobbyIds |-> {}]
    /\ activeGames = {}
    /\ gorillaPlayerId = None
    /\ players = <<>>
    /\ transforms = <<>>
    /\ colors = <<>>
    /\ hostId = None
    /\ lobbyGorilla = <<>>
    /\ req = Request("init", None, None)
    /\ out = <<>>
    /\ ClientInit

\* socket ids are opaque and never reused: the model hands them out in the
\* order 1, 2, ... (any other naming of the connections is a renaming of this)
NextSocketId == Cardinality(clientSockets \cup gone) + 1

\* mainNamespace.on("connection")
Connect(s) ==
    /\ UNCHANGED clientVars
    /\ s = NextSocketId
    /\ clientSockets' = clientSockets \cup {s}
    /\ req' = Request("connection", s, None)
    /\ out' = <<Emit({s}, "connectionAck",
                     [id |-> s, players |-> Len(players), host |-> hostId])>>
    /\ UNCHANGED <<gone, lobbies, playerLobbyMap, rooms, activeGames,
                   gorillaPlayerId, players, transforms, colors, hostId,
                   lobbyGorilla>>

\* socket.on("getLobbies")
GetLobbies(s) ==
    /\ UNCHANGED clientVars
    /\ s \in clientSockets
    /\ req' = Request("getLobbies", s, None)
    /\ out' = <<BroadcastLobbiesList(lobbies, clientSockets)>>
    /\ UNCHANGED <<clientSockets, gone, lobbies, playerLobbyMap, rooms,
                   activeGames, gorillaPlayerId, players, transforms, colors, hostId,
                   lobbyGorilla>>

\* ------------------------------------------------------------ createLobby
NewLobby(l, s, maxPlayers) ==
    [id |-> l, hostId |-> s, players |-> <<s>>,
     maxPlayers |-> EffectiveMaxPlayers(maxPlayers), inGame |-> FALSE]

\* mutant of AlreadyInLobby: the check is missing
AlreadyInLobby_Never(s) == FALSE

AlreadyInLobby(s) == s \in DOMAIN playerLobbyMap

\* socket.on("createLobby")
CreateLobby(s, maxPlayers) ==
    /\ UNCHANGED clientVars
    /\ s \in clientSockets
    /\ req' = Request("createLobby", s, maxPlayers)
    /\ IF AlreadyInLobby(s)
       THEN /\ out' = <<LobbyError(s, "You are already in a lobby. Leave it first.")>>
            /\ UNCHANGED <<lobbies, playerLobbyMap, rooms>>
       ELSE \E l \in FreshLobbyIds :
            LET lobby == NewLobby(l, s, maxPlayers) IN
            /\ lobbies' = Put(lobbies, l, lobby)
            /\ playerLobbyMap' = Put(playerLobbyMap, s, l)
            /\ rooms' = [rooms EXCEPT ![l] = @ \cup {s}]
            /\ out' = <<Emit({s}, "lobbyJoined", lobby),
                        Emit(rooms'[l], "lobbyUpdated", lobby),
                        BroadcastLobbiesList(lobbies', clientSockets)>>
    /\ UNCHANGED <<clientSockets, gone, activeGames, gorillaPlayerId, players,
                   transforms, colors, hostId, lobbyGorilla>>

\* -------------------------------------------------------------- joinLobby
NoError == ""

\* mutant of LobbyIsFull: > where >= is meant in the capacity check
LobbyIsFull_OffByOne(lobby) == Len(lobby.players) > lobby.maxPlayers

\* if (lobby.players.length >= lobby.maxPlayers)
LobbyIsFull(lobby) == Len(lobby.players) >= lobby.maxPlayers

\* mutant of JoinError: the already-in-a-lobby check is missing
JoinError_NoAlreadyCheck(s, l) ==
    IF l \notin DOMAIN lobbies THEN "Lobby not found."
    ELSE IF LobbyIsFull(lobbies[l]) THEN "Lobby is full."
    ELSE IF lobbies[l].inGame THEN "Game already in progress."
    ELSE ""

\* mutant of JoinError: the in-game check is missing
JoinError_NoInGameCheck(s, l) ==
    IF AlreadyInLobby(s) THEN "You are already in a lobby. Leave it first."
    ELSE IF l \notin DOMAIN lobbies THEN "Lobby not found."
    ELSE IF Len(lobbies[l].players) >= lobbies[l].maxPlayers THEN "Lobby is full."
    ELSE NoError

\* the validation chain of joinLobby, in the order of the code
JoinError(s, l) ==
    IF AlreadyInLobby(s) THEN "You are already in a lobby. Leave it first."
    ELSE IF l \notin DOMAIN lobbies THEN "Lobby not found."
    ELSE IF LobbyIsFull(lobbies[l]) THEN "Lobby is full."
    ELSE IF lobbies[l].inGame THEN "Game already in progress."
    ELSE NoError

\* mutant of AddPlayer: unshift instead of push
AddPlayer_Front(members, s) == <<s>> \o members

\* lobby.players.push({id: socket.id, name: playerName})
AddPlayer(members, s) == Append(members, s)

\* socket.on("joinLobby")
JoinLobby(s, l) ==
    /\ UNCHANGED clientVars
    /\ s \in clientSockets
    /\ req' = Request("joinLobby", s, l)
    /\ IF JoinError(s, l) # NoError
       THEN /\ out' = <<LobbyError(s, JoinError(s, l))>>
            /\ UNCHANGED <<lobbies, playerLobbyMap, rooms>>
       ELSE LET lobby == [lobbies[l] EXCEPT !.players = AddPlayer(@, s)] IN
            /\ lobbies' = Put(lobbies, l, lobby)
            /\ playerLobbyMap' = Put(playerLobbyMap, s, l)
            /\ rooms' = [rooms EXCEPT ![l] = @ \cup {s}]
            /\ out' = <<Emit({s}, "lobbyJoined", lobby),
                        Emit(rooms'[l], "lobbyUpdated", lobby),
                        BroadcastLobbiesList(lobbies', clientSockets)>>
    /\ UNCHANGED <<clientSockets, gone, activeGames, gorillaPlayerId, players,
                   transforms, colors, hostId, lobbyGorilla>>

\* ------------------------------------------------------------- leaveLobby
\* const lobbyId = playerLobbyMap[socket.id]; if (!lobbyId || !lobbies[lobbyId])
HasLobby(s) == s \in DOMAIN playerLobbyMap /\ playerLobbyMap[s] \in DOMAIN lobbies

\* mutant of NewLobbyHost: the newest remaining member is promoted
NewLobbyHost_Last(remaining) == remaining[Len(remaining)]

\* lobby.hostId = lobby.players[0].id
NewLobbyHost(remaining) == remaining[1]

\* mutant of LobbyAfterDeparture: a departure puts the lobby back to Open
LobbyAfterDeparture_Reopen(lobby, s) ==
    LET remaining == FilterOut(lobby.players, s) IN
    [lobby EXCEPT !.players = remaining,
                  !.inGame = FALSE,
                  !.hostId = IF Len(remaining) # 0 /\ lobby.hostId = s
                             THEN remaining[1] ELSE @]

\* the lobby object after the departure of s (leaveLobby and disconnect):
\* s filtered out, and a new host when s was the host and somebody remains
LobbyAfterDeparture(lobby, s) ==
    LET remaining == FilterOut(lobby.players, s) IN
    [lobby EXCEPT !.players = remaining,
                  !.hostId = IF Len(remaining) # 0 /\ lobby.hostId = s
                             THEN NewLobbyHost(remaining) ELSE @]

\* the emissions that follow a departure: the new host first, then the room
DepartureEmits(lobby, lobby2, s, room, conn) ==
    (IF Len(lobby2.players) # 0 /\ lobby.hostId = s /\ lobby2.hostId \in conn
     THEN <<Emit({lobby2.hostId}, "lobbyUpdated", lobby2)>> ELSE <<>>)
    \o <<Emit(room, "lobbyUpdated", lobby2)>>

\* socket.on("leaveLobby")
LeaveLobby(s) ==
    /\ UNCHANGED clientVars
    /\ s \in clientSockets
    /\ req' = Request("leaveLobby", s, None)
    /\ IF ~HasLobby(s)
       THEN /\ out' = <<>>
            /\ UNCHANGED <<lobbies, playerLobbyMap, rooms, lobbyGorilla>>
       ELSE LET l == playerLobbyMap[s]
                lobby == lobbies[l]
                lobby2 == LobbyAfterDeparture(lobby, s)
                emptied == Len(lobby2.players) = 0
            IN
            /\ playerLobbyMap' = Delete(playerLobbyMap, s)
            /\ rooms' = [rooms EXCEPT ![l] = @ \ {s}]
            /\ lobbies' = IF emptied THEN Delete(lobbies, l) ELSE Put(lobbies, l, lobby2)
            /\ lobbyGorilla' = IF emptied THEN Delete(lobbyGorilla, l) ELSE lobbyGorilla
            /\ out' = DepartureEmits(lobby, lobby2, s, rooms'[l], clientSockets)
                      \o <<BroadcastLobbiesList(lobbies', clientSockets)>>
    /\ UNCHANGED <<clientSockets, gone, activeGames, gorillaPlayerId, players,
                   transforms, colors, hostId>>

\* ------------------------------------------------------------- kickPlayer
\* mutant of IsLobbyHost: any member passes for the host
IsLobbyHost_AnyMember(lobby, s) == s \in Ids(lobby.players)

\* if (lobby.hostId !== socket.id) -> "Only the host can kick players."
IsLobbyHost(lobby, s) == lobby.hostId = s

\* lobby.players.some((p) => p.id === playerId)
PlayerExists(lobby, playerId) == playerId \in Ids(lobby.players)

\* socket.on("kickPlayer"); playerId is whatever id the client sent
KickPlayer(s, playerId) ==
    /\ UNCHANGED clientVars
    /\ s \in clientSockets
    /\ req' = Request("kickPlayer", s, playerId)
    /\ IF ~HasLobby(s)
       THEN /\ out' = <<>>
            /\ UNCHANGED <<lobbies, playerLobbyMap, rooms>>
       ELSE LET l == playerLobbyMap[s]
                lobby == lobbies[l]
            IN
            IF ~IsLobbyHost(lobby, s)
            THEN /\ out' = <<LobbyError(s, "Only the host can kick players.")>>
                 /\ UNCHANGED <<lobbies, playerLobbyMap, rooms>>
            ELSE IF ~PlayerExists(lobby, playerId)
            THEN /\ out' = <<LobbyError(s, "Player not found in lobby.")>>
                 /\ UNCHANGED <<lobbies, playerLobbyMap, rooms>>
            ELSE LET lobby2 == [lobby EXCEPT !.players = FilterOut(@, playerId)]
                     online == playerId \in clientSockets
                 IN
                 /\ lobbies' = Put(lobbies, l, lobby2)
                 /\ playerLobbyMap' = Delete(playerLobbyMap, playerId)
                 /\ rooms' = [rooms EXCEPT ![l] = IF online THEN @ \ {playerId} ELSE @]
                 /\ out' = (IF online
                            THEN <<LobbyError(playerId, "You were kicked from the lobby.")>>
                            ELSE <<>>)
                           \o <<Emit(rooms'[l], "lobbyUpdated", lobby2),
                                BroadcastLobbiesList(lobbies', clientSockets)>>
    /\ UNCHANGED <<clientSockets, gone, activeGames, gorillaPlayerId, players,
                   transforms, colors, hostId, lobbyGorilla>>

\* -------------------------------------------------------------- startGame
\* mutant of StartError: the minimum of 2 players is not checked
StartError_NoMinimum(s) ==
    IF ~HasLobby(s) THEN "Could not start game - lobby not found."
    ELSE IF ~IsLobbyHost(lobbies[playerLobbyMap[s]], s)
         THEN "Only the host can start the game."
    ELSE NoError

\* the validation chain of startGame, in the order of the code
StartError(s) ==
    IF ~HasLobby(s) THEN "Could not start game - lobby not found."
    ELSE IF ~IsLobbyHost(lobbies[playerLobbyMap[s]], s)
         THEN "Only the host can start the game."
    ELSE IF Len(lobbies[playerLobbyMap[s]].players) < MinPlayersToStart
         THEN "Need at least 2 players to start the game."
    ELSE NoError

\* mutant of PlayerRoles: index <= gorillaPlayerIndex instead of ===
PlayerRoles_UpTo(members, gorillaPlayerIndex) ==
    [i \in 1..Len(members) |-> [id |-> members[i], isGorilla |-> (i <= gorillaPlayerIndex)]]

\* lobby.players.map((player, index) => ({id, name, isGorilla: index === gorillaPlayerIndex}))
PlayerRoles(members, gorillaPlayerIndex) ==
    [i \in 1..Len(members) |-> [id |-> members[i], isGorilla |-> (i = gorillaPlayerIndex)]]

\* Math.floor(Math.random() * playerIndices.length), as a 1-based index
GorillaIndexChoices(members) == 1..Len(members)

\* the sockets io.to(lobbyId).emit reaches
RoomOf(l) == rooms[l]

\* socket.on("startGame")
StartGame(s) ==
    /\ UNCHANGED clientVars
    /\ s \in clientSockets
    /\ req' = Request("startGame", s, None)
    /\ IF StartError(s) # NoError
       THEN /\ out' = <<LobbyError(s, StartError(s))>>
            /\ UNCHANGED <<lobbies, activeGames, gorillaPlayerId, lobbyGorilla>>
       ELSE LET l == playerLobbyMap[s]
                lobby == lobbies[l]
            IN
            \E gorillaPlayerIndex \in GorillaIndexChoices(lobby.players) :
            LET playerRoles == PlayerRoles(lobby.players, gorillaPlayerIndex)
                gorillaPlayer == lobby.players[gorillaPlayerIndex]
            IN
            /\ lobbies' = Put(lobbies, l, [lobby EXCEPT !.inGame = TRUE])
            /\ activeGames' = activeGames \cup {l}
            /\ gorillaPlayerId' = gorillaPlayer
            /\ lobbyGorilla' = Put(lobbyGorilla, l, gorillaPlayer)
            /\ out' = <<Emit(RoomOf(l), "gameStarted",
                             [lobbyId |-> l, players |-> lobby.players,
                              roles |-> playerRoles, gorilla |-> gorillaPlayer]),
                        BroadcastLobbiesList(lobbies', clientSockets)>>
    /\ UNCHANGED <<clientSockets, gone, playerLobbyMap, rooms, players, transforms,
                   colors, hostId>>

\* ------------------------------------------------------------------- join
\* players[socket.id] = {...}: a new key goes last, an existing key keeps its place
Register(registry, s) == IF s \in Ids(registry) THEN registry ELSE Append(registry, s)

\* the record join stores for a player (name, color and isGorilla are left out)
NewPlayer(data) ==
    [position |-> IF data.position = Missing THEN DefaultPosition ELSE data.position,
     rotation |-> IF data.rotation = Missing THEN DefaultRotation ELSE data.rotation]

\* players[id] as it is sent to clients
PlayerRecord(tr, id) ==
    [id |-> id, position |-> tr[id].position, rotation |-> tr[id].rotation]

\* mutant of ExistingPlayers: the snapshot stops short of the newest record
ExistingPlayers_Short(registry, tr, s) ==
    LET others == FilterOut(registry, s)
    IN  [i \in 1..(Len(others) - 1) |-> PlayerRecord(tr, others[i])]

\* Object.values(players).filter((p) => p.id !== socket.id)
ExistingPlayers(registry, tr, s) ==
    LET others == FilterOut(registry, s)
    IN  [i \in DOMAIN others |-> PlayerRecord(tr, others[i])]

\* socket.on("join"), the global (non-lobby) path
Join(s, data, color) ==
    /\ UNCHANGED clientVars
    /\ s \in clientSockets
    /\ color \in RandomColorChoices
    /\ req' = Request("join", s, data)
    /\ players' = Register(players, s)
    /\ transforms' = Put(transforms, s, NewPlayer(data))
    /\ colors' = Put(colors, s, color)
    /\ hostId' = IF hostId = None THEN s ELSE hostId
    /\ out' = (IF hostId = None THEN <<Emit({s}, "hostAssigned", TRUE)>> ELSE <<>>)
              \o <<Emit({s}, "existingPlayers", ExistingPlayers(players', transforms', s)),
                   Emit(clientSockets \ {s}, "playerJoined", PlayerRecord(transforms', s))>>
    /\ UNCHANGED <<clientSockets, gone, lobbies, playerLobbyMap, rooms,
                   activeGames, gorillaPlayerId, lobbyGorilla>>

\* ----------------------------------------------------------- playerUpdate
\* mutant of IsRegistered: every sender counts as registered
IsRegistered_Always(s) == TRUE

\* players[socket.id]
IsRegistered(s) == s \in Ids(players)

\* mutant of UpdatedTransforms: the update is written to every record
UpdatedTransforms_All(tr, s, data) ==
    [k \in DOMAIN tr |-> [position |-> data.position, rotation |-> data.rotation]]

\* players[socket.id].position = data.position; .rotation = data.rotation
UpdatedTransforms(tr, s, data) ==
    Put(tr, s, [position |-> data.position, rotation |-> data.rotation])

\* socket.on("playerUpdate"); the handler is a closure over its socket, so a
\* message dispatched after the socket has disconnected runs it as well
PlayerUpdate(s, data) ==
    /\ UNCHANGED clientVars
    /\ s \in clientSockets \cup gone
    /\ req' = Request("playerUpdate", s, data)
    /\ IF ~IsRegistered(s)
       THEN /\ out' = <<>>
            /\ UNCHANGED transforms
       ELSE /\ transforms' = UpdatedTransforms(transforms, s, data)
            /\ out' = <<Emit(clientSockets \ {s}, "playerMoved",
                             [id |-> s, position |-> data.position,
                              rotation |-> data.rotation])>>
    /\ UNCHANGED <<clientSockets, gone, lobbies, playerLobbyMap, rooms, activeGames,
                   gorillaPlayerId, players, colors, hostId, lobbyGorilla>>

\* ------------------------------------------------------------- disconnect
\* socket.io empties the socket's rooms before the "disconnect" event fires
LeaveAllRooms(s) == [l \in DOMAIN rooms |-> rooms[l] \ {s}]

\* mutant of GlobalHostAfter: the host is never replaced
GlobalHostAfter_Keep(s) == hostId

\* the global-registry half of the disconnect handler
GlobalHostAfter(s) ==
    IF s \in Ids(players) /\ s = hostId
    THEN (IF Len(FilterOut(players, s)) > 0 THEN FilterOut(players, s)[1] ELSE None)
    ELSE hostId

\* socket.on("disconnect")
Disconnect(s) ==
    /\ UNCHANGED clientVars
    /\ s \in clientSockets
    /\ req' = Request("disconnect", s, None)
    /\ clientSockets' = clientSockets \ {s}
    /\ gone' = gone \cup {s}
    /\ rooms' = LeaveAllRooms(s)
    /\ players' = FilterOut(players, s)
    /\ transforms' = Delete(transforms, s)
    /\ colors' = Delete(colors, s)
    /\ hostId' = GlobalHostAfter(s)
    /\ LET globalEmits ==
             IF s \in Ids(players)
             THEN <<Emit(clientSockets', "playerLeft", s)>>
                  \o (IF s = hostId /\ hostId' # None /\ hostId' \in clientSockets'
                      THEN <<Emit({hostId'}, "hostAssigned", TRUE)>> ELSE <<>>)
             ELSE <<>>
       IN
       IF ~HasLobby(s)
       THEN /\ out' = globalEmits
            /\ UNCHANGED <<lobbies, playerLobbyMap, activeGames, lobbyGorilla>>
       ELSE LET l == playerLobbyMap[s]
                lobby == lobbies[l]
                lobby2 == LobbyAfterDeparture(lobby, s)
                emptied == Len(lobby2.players) = 0
            IN
            /\ playerLobbyMap' = Delete(playerLobbyMap, s)
            /\ lobbies' = IF emptied THEN Delete(lobbies, l) ELSE Put(lobbies, l, lobby2)
            /\ activeGames' = IF emptied THEN activeGames \ {l} ELSE activeGames
            /\ lobbyGorilla' = IF emptied THEN Delete(lobbyGorilla, l) ELSE lobbyGorilla
            /\ out' = DepartureEmits(lobby, lobby2, s, rooms'[l], clientSockets')
                      \o <<BroadcastLobbiesList(lobbies', clientSockets')>>
                      \o globalEmits
    /\ UNCHANGED gorillaPlayerId

\* ------------------------------------------------------------------ system
Next ==
    \/ \E s \in Sessions : Connect(s)
    \/ \E s \in Sessions : GetLobbies(s)
    \/ \E s \in Sessions, maxPlayers \in MaxPlayersInputs : CreateLobby(s, maxPlayers)
    \/ \E s \in Sessions, l \in LobbyIds : JoinLobby(s, l)
    \/ \E s \in Sessions : LeaveLobby(s)
    \/ \E s \in Sessions, playerId \in Sessions : KickPlayer(s, playerId)
    \/ \E s \in Sessions : StartGame(s)
    \/ \E s \in Sessions, data \in JoinInputs, color \in RandomColorChoices :
          Join(s, data, color)
    \/ \E s \in Sessions, data \in Transforms : PlayerUpdate(s, data)
    \/ \E s \in Sessions : Disconnect(s)

Spec == Init /\ [][Next]_vars

\* The lobby workflow on its own: connections and the six lobby requests.
\* getLobbies only emits, and join touches the global registry alone, which
\* no lobby handler reads; the lobby half of the state evolves the same with
\* or without them.
LobbyNext ==
    \/ \E s \in Sessions : Connect(s)
    \/ \E s \in Sessions, maxPlayers \in MaxPlayersInputs : CreateLobby(s, maxPlayers)
    \/ \E s \in Sessions, l \in LobbyIds : JoinLobby(s, l)
    \/ \E s \in Sessions : LeaveLobby(s)
    \/ \E s \in Sessions, playerId \in Sessions : KickPlayer(s, playerId)
    \/ \E s \in Sessions : StartGame(s)
    \/ \E s \in Sessions : Disconnect(s)

LobbySpec == Init /\ [][LobbyNext]_vars

\* The lobby workflow over a pool of two lobby ids (the pool is the domain of
\* rooms), so that sessions have a second lobby to be in.  To keep the state
\* space small every lobby is created with the default maxPlayers.
NumLobbyIdsTwo == 2

LobbyIdsTwo == {100 + i : i \in 1..NumLobbyIdsTwo}

InitTwoLobbies ==
    /\ clientSockets = {}
    /\ gone = {}
    /\ lobbies = <<>>
    /\ playerLobbyMap = <<>>
    /\ rooms = [l \in LobbyIdsTwo |-> {}]
    /\ activeGames = {}
    /\ gorillaPlayerId = None
    /\ players = <<>>
    /\ transforms = <<>>
    /\ colors = <<>>
    /\ hostId = None
    /\ lobbyGorilla = <<>>
    /\ req = Request("init", None, None)
    /\ out = <<>>
    /\ ClientInit

TwoLobbyNext ==
    \/ \E s \in Sessions : Connect(s)
    \/ \E s \in Sessions : CreateLobby(s, 0)
    \/ \E s \in Sessions, l \in LobbyIdsTwo : JoinLobby(s, l)
    \/ \E s \in Sessions : LeaveLobby(s)
    \/ \E s \in Sessions, playerId \in Sessions : KickPlayer(s, playerId)
    \/ \E s \in Sessions : StartGame(s)
    \/ \E s \in Sessions : Disconnect(s)

TwoLobbySpec == InitTwoLobbies /\ [][TwoLobbyNext]_vars

\* The global path: connections, join, playerUpdate and disconnect, next to
\* the two lobby requests that put sessions into a lobby.  The server stores
\* a player's color and never reads it; here every draw gives the first
\* entry of the palette.
GlobalNext ==
    \/ \E s \in Sessions : Connect(s)
    \/ \E s \in Sessions, data \in JoinInputs : Join(s, data, 1)
    \/ \E s \in Sessions, data \in Transforms : PlayerUpdate(s, data)
    \/ \E s \in Sessions : CreateLobby(s, 0)
    \/ \E s \in Sessions, l \in LobbyIds : JoinLobby(s, l)
    \/ \E s \in Sessions : Disconnect(s)

GlobalSpec == Init /\ [][GlobalNext]_vars

\* The registry with the color draws: connections, join without a transform,
\* and disconnect.
ColorNext ==
    \/ \E s \in Sessions : Connect(s)
    \/ \E s \in Sessions, color \in RandomColorChoices :
          Join(s, [position |-> Missing, rotation |-> Missing], color)
    \/ \E s \in Sessions : Disconnect(s)

ColorSpec == Init /\ [][ColorNext]_vars

\* ================================================================= client
\* a message the client sends to the server
Send(type, body) == [to |-> {}, type |-> type, body |-> body]

\* every object of the scene that the remotePlayersMap holds
ClearedScene == scene \ {remotePlayersMap[id].obj : id \in DOMAIN remotePlayersMap}

\* the update timers that may run at once in the model
MaxTimers == 2

\* this.updateInterval and the timers that run, as one value
Timer == [updateInterval |-> updateInterval, timers |-> timers]

SetTimer(t) ==
    /\ updateInterval' = t.updateInterval
    /\ timers' = t.timers
    /\ timers' <= MaxTimers

\* stopSendingUpdates: the timer that this.updateInterval holds is cleared
StopSendingUpdates(t) ==
    IF t.updateInterval
    THEN [updateInterval |-> FALSE, timers |-> t.timers - 1]
    ELSE t

\* mutant of StartSendingUpdates: the old timer is not stopped first
StartSendingUpdates_NoStop(t) ==
    [updateInterval |-> TRUE, timers |-> t.timers + 1]

\* startSendingUpdates: stopSendingUpdates, then a new timer is set and kept
\* in this.updateInterval
StartSendingUpdates(t) ==
    [updateInterval |-> TRUE, timers |-> StopSendingUpdates(t).timers + 1]

\* the join message of the client, with the local player's transform
JoinMessage == Send("join", [position |-> localTransform.x, rotation |-> localTransform.ry])

\* socket.on("connect"): the game handlers are set up, the update timer is
\* (re)started and join is sent
ClientConnect ==
    /\ ~connected
    /\ connected' = TRUE
    /\ awaitingSnapshot' = TRUE
    /\ SetTimer(StartSendingUpdates(Timer))
    /\ req' = Request("connect", None, None)
    /\ out' = <<JoinMessage>>
    /\ UNCHANGED <<present, left, remotePlayersMap, scene, objs, loaders,
                   localTransform, lastSent, inGame>>
    /\ UNCHANGED <<serverVars, avatarVars, mirrorVars>>

\* socket.on("disconnect"): stopSendingUpdates, then clearRemotePlayers
ClientDisconnect ==
    /\ connected
    /\ connected' = FALSE
    /\ awaitingSnapshot' = FALSE
    /\ SetTimer(StopSendingUpdates(Timer))
    /\ scene' = ClearedScene
    /\ remotePlayersMap' = <<>>
    /\ req' = Request("clientDisconnect", None, None)
    /\ out' = <<>>
    /\ UNCHANGED <<present, left, objs, loaders, localTransform, lastSent, inGame>>
    /\ UNCHANGED <<serverVars, avatarVars, mirrorVars>>

\* ------------------------------------------------------- remote players
\* the remote sessions the client can hear of
NumRemote == 2

RemoteIds == 1..NumRemote

\* the number of objects the client creates for remote sessions is capped
MaxObjects == 4

\* the four pieces of the remote-player bookkeeping as one value
Reconciler ==
    [map |-> remotePlayersMap, scene |-> scene, objs |-> objs, loaders |-> loaders]

SetReconciler(c) ==
    /\ remotePlayersMap' = c.map
    /\ scene' = c.scene
    /\ objs' = c.objs
    /\ loaders' = c.loaders

\* a THREE.Group made for a remote session: the placeholder group of
\* addRemotePlayer, or the group of a new Player, whose model is not loaded yet
NewObject(owner, kind, tr) ==
    [owner |-> owner, kind |-> kind, transform |-> tr, model |-> FALSE]

\* group.position.copy(...); group.rotation.y = ...
MoveObject(os, o, tr) == [os EXCEPT ![o].transform = tr]

\* the first synchronous part of loadRemotePlayerModel: a Player is made (its
\* constructor puts its group into the scene and starts loading the model),
\* it gets the placeholder's position and rotation, and the wait begins
StartLoader(c, id) ==
    LET p == c.map[id].obj
        r == Len(c.objs) + 1
    IN  [c EXCEPT !.scene = @ \cup {r},
                  !.objs = Append(@, NewObject(id, "player", c.objs[p].transform)),
                  !.loaders = @ \cup {[id |-> id, placeholder |-> p, player |-> r]}]

\* addRemotePlayer: a known id is only moved; an unknown id gets a placeholder
\* in the scene and in the map, and its model starts loading
AddRemotePlayer(c, id, data) ==
    IF id \in DOMAIN c.map
    THEN [c EXCEPT !.objs = MoveObject(@, c.map[id].obj, data)]
    ELSE LET p == Len(c.objs) + 1
         IN  StartLoader([c EXCEPT
                 !.scene = @ \cup {p},
                 !.objs = Append(@, NewObject(id, "placeholder", data)),
                 !.map = Put(@, id, [obj |-> p, isPlaceholder |-> TRUE])], id)

\* updateRemotePlayer: the object the map names is moved; unknown ids are ignored
UpdateRemotePlayer(c, id, data) ==
    IF id \notin DOMAIN c.map
    THEN c
    ELSE [c EXCEPT !.objs = MoveObject(@, c.map[id].obj, data)]

\* removeRemotePlayer: the object the map names leaves the scene, the entry the map
RemoveRemotePlayer(c, id) ==
    IF id \notin DOMAIN c.map
    THEN c
    ELSE [c EXCEPT !.scene = @ \ {c.map[id].obj}, !.map = Delete(@, id)]

\* the objects addRemotePlayer would create for these ids
ObjectsNeeded(ids) == 2 * Cardinality(ids \ DOMAIN remotePlayersMap)

\* playersData.forEach(addRemotePlayer)
RECURSIVE AddAll(_, _, _)
AddAll(c, ids, f) ==
    IF ids = {}
    THEN c
    ELSE LET id == CHOOSE i \in ids : \A k \in ids : i <= k
         IN  AddAll(AddRemotePlayer(c, id, f[id]), ids \ {id}, f)

\* socket.on("existingPlayers"): the server's answer to join, the sessions
\* registered there with their stored transforms
OnExistingPlayers(f) ==
    /\ connected
    /\ awaitingSnapshot
    /\ Len(objs) + ObjectsNeeded(present) <= MaxObjects
    /\ awaitingSnapshot' = FALSE
    /\ SetReconciler(AddAll(Reconciler, present, f))
    /\ req' = Request("existingPlayers", None, f)
    /\ out' = <<>>
    /\ UNCHANGED <<connected, present, left, limiterVars>>
    /\ UNCHANGED <<serverVars, avatarVars, mirrorVars>>

\* a remote session sends join; a connected client gets playerJoined
OnPlayerJoined(id, data) ==
    /\ id \notin left
    /\ connected => Len(objs) + ObjectsNeeded({id}) <= MaxObjects
    /\ present' = present \cup {id}
    /\ IF connected
       THEN SetReconciler(AddRemotePlayer(Reconciler, id, data))
       ELSE UNCHANGED <<remotePlayersMap, scene, objs, loaders>>
    /\ req' = Request("playerJoined", id, data)
    /\ out' = <<>>
    /\ UNCHANGED <<connected, awaitingSnapshot, left, limiterVars>>
    /\ UNCHANGED <<serverVars, avatarVars, mirrorVars>>

\* a registered remote session sends playerUpdate; a connected client gets
\* playerMoved
OnPlayerMoved(id, data) ==
    /\ id \in present
    /\ IF connected
       THEN SetReconciler(UpdateRemotePlayer(Reconciler, id, data))
       ELSE UNCHANGED <<remotePlayersMap, scene, objs, loaders>>
    /\ req' = Request("playerMoved", id, data)
    /\ out' = <<>>
    /\ UNCHANGED <<connected, awaitingSnapshot, present, left, limiterVars>>
    /\ UNCHANGED <<serverVars, avatarVars, mirrorVars>>

\* a registered remote session disconnects; a connected client gets playerLeft
OnPlayerLeft(id) ==
    /\ id \in present
    /\ present' = present \ {id}
    /\ left' = left \cup {id}
    /\ IF connected
       THEN SetReconciler(RemoveRemotePlayer(Reconciler, id))
       ELSE UNCHANGED <<remotePlayersMap, scene, objs, loaders>>
    /\ req' = Request("playerLeft", id, None)
    /\ out' = <<>>
    /\ UNCHANGED <<connected, awaitingSnapshot, limiterVars>>
    /\ UNCHANGED <<serverVars, avatarVars, mirrorVars>>

\* Player.loadModel finishes for a Player whose loader is still waiting
ModelLoaded(o) ==
    /\ \E ld \in loaders : ld.player = o
    /\ ~objs[o].model
    /\ objs' = [objs EXCEPT ![o].model = TRUE]
    /\ req' = Request("modelLoaded", objs[o].owner, o)
    /\ out' = <<>>
    /\ UNCHANGED <<connected, awaitingSnapshot, present, left, remotePlayersMap,
                   scene, loaders, limiterVars>>
    /\ UNCHANGED <<serverVars, avatarVars, mirrorVars>>

\* the map entry the loader writes when its wait is over
SwappedEntry(entry, ld) == [obj |-> ld.player, isPlaceholder |-> FALSE]

\* the scene after the swap: the placeholder the loader started from is
\* removed if the model has loaded
SceneAfterSwap(sc, ld, modelLoaded) ==
    IF modelLoaded THEN sc \ {ld.placeholder} ELSE sc

\* A run of the loader's 500 ms check that ends the wait, with the rest of
\* loadRemotePlayerModel, which runs right after it: the id is gone from the
\* map (the Player's group is taken out of the scene), the model has loaded,
\* or five seconds have passed (timedOut).  The transformation of a remote
\* gorilla that follows is not modelled.
LoaderPoll(ld, timedOut) ==
    /\ ld \in loaders
    /\ loaders' = loaders \ {ld}
    /\ IF ld.id \notin DOMAIN remotePlayersMap
       THEN /\ scene' = scene \ {ld.player}
            /\ UNCHANGED remotePlayersMap
       ELSE /\ objs[ld.player].model \/ timedOut
            /\ remotePlayersMap' = Put(remotePlayersMap, ld.id,
                                        SwappedEntry(remotePlayersMap[ld.id], ld))
            /\ scene' = SceneAfterSwap(scene, ld, objs[ld.player].model)
    /\ req' = Request("loaderPoll", ld.id, ld)
    /\ out' = <<>>
    /\ UNCHANGED <<connected, awaitingSnapshot, present, left, objs, limiterVars>>
    /\ UNCHANGED <<serverVars, avatarVars, mirrorVars>>

\* the transforms of remote sessions that move and do not turn
RemoteTransforms == {tr \in Transforms : tr.rotation = 0}

\* The client's view of the remote sessions: its socket connects and
\* disconnects, remote sessions join, move and leave, models load, loaders
\* finish.  To keep the state space small the remote sessions do not turn.
ReconcilerNext ==
    \/ ClientConnect
    \/ ClientDisconnect
    \/ \E f \in [present -> RemoteTransforms] : OnExistingPlayers(f)
    \/ \E id \in RemoteIds, data \in RemoteTransforms : OnPlayerJoined(id, data)
    \/ \E id \in RemoteIds, data \in RemoteTransforms : OnPlayerMoved(id, data)
    \/ \E id \in RemoteIds : OnPlayerLeft(id)
    \/ \E o \in DOMAIN objs : ModelLoaded(o)
    \/ \E ld \in loaders, timedOut \in BOOLEAN : LoaderPoll(ld, timedOut)

ReconcilerSpec == Init /\ [][ReconcilerNext]_vars

\* ----------------------------------------------------- startSendingUpdates
\* the positions and rotations the local player can have
LocalTransforms == [x : Coords, y : Coords, z : Coords, ry : Coords]

\* the game loop moves the local player
MoveLocal(t) ==
    /\ localTransform' = t
    /\ req' = Request("move", None, t)
    /\ out' = <<>>
    /\ UNCHANGED <<remoteVars, lastSent, updateInterval, timers, inGame>>
    /\ UNCHANGED <<serverVars, avatarVars, mirrorVars>>

\* mutant of HasChanged: the objects are compared, not their components
\* (lastSentPosition !== position), which never finds them equal
HasChanged_ByReference(last, cur) == TRUE

\* hasChanged: nothing sent yet, or a component differs from the last one sent
HasChanged(last, cur) ==
    \/ last = {}
    \/ \E l \in last : l.x # cur.x \/ l.y # cur.y \/ l.z # cur.z \/ l.ry # cur.ry

\* one run of the setInterval callback of startSendingUpdates
Tick ==
    /\ timers > 0
    /\ req' = Request("tick", None, None)
    /\ IF connected
       THEN IF HasChanged(lastSent, localTransform)
            THEN /\ out' = <<Send("playerUpdate", localTransform)>>
                 /\ lastSent' = {localTransform}
                 /\ UNCHANGED <<updateInterval, timers>>
            ELSE /\ out' = <<>>
                 /\ UNCHANGED <<lastSent, updateInterval, timers>>
       ELSE /\ out' = <<>>
            /\ SetTimer(StopSendingUpdates(Timer))
            /\ UNCHANGED lastSent
    /\ UNCHANGED <<remoteVars, localTransform, inGame>>
    /\ UNCHANGED <<serverVars, avatarVars, mirrorVars>>

\* joinGame, called when gameStarted arrives: nothing if the socket is not
\* connected; else join is sent and the update timer is (re)started
JoinGame ==
    /\ connected
    /\ inGame' = TRUE
    /\ SetTimer(StartSendingUpdates(Timer))
    /\ req' = Request("joinGame", None, None)
    /\ out' = <<JoinMessage>>
    /\ UNCHANGED <<remoteVars, localTransform, lastSent>>
    /\ UNCHANGED <<serverVars, avatarVars, mirrorVars>>

\* leaveGame: nothing if the client is in no game; else the timer is stopped,
\* the remote players are cleared and leaveGame is sent
LeaveGame ==
    /\ inGame
    /\ inGame' = FALSE
    /\ SetTimer(StopSendingUpdates(Timer))
    /\ scene' = ClearedScene
    /\ remotePlayersMap' = <<>>
    /\ req' = Request("leaveGame", None, None)
    /\ out' = <<Send("leaveGame", None)>>
    /\ UNCHANGED <<connected, awaitingSnapshot, present, left, objs, loaders,
                   localTransform, lastSent>>
    /\ UNCHANGED <<serverVars, avatarVars, mirrorVars>>

\* The update timer on its own: the socket connects and disconnects, the
\* local player moves, the timer ticks.
LimiterNext ==
    \/ ClientConnect
    \/ ClientDisconnect
    \/ JoinGame
    \/ LeaveGame
    \/ \E t \in LocalTransforms : MoveLocal(t)
    \/ Tick

LimiterSpec == Init /\ [][LimiterNext]_vars

\* ------------------------------------------------ handleRemotePlayerAttack
\* the damage the local player can take in the model
MaxHits == 2

\* mutant of AttackDamage: the attacker need not be in the map
AttackDamage_AnyAttacker(map, id, inReach) == IF inReach THEN 1 ELSE 0

\* The calls of localPlayer.onAttacked that one playerAttacked makes.  The
\* attacker's position is that of the group the map names for it; without an
\* entry there is no position and no damage.  inReach is the outcome of the
\* tests on the local player (alive, not invulnerable) and on distance and
\* direction between that group and the local player.
AttackDamage(map, id, inReach) == IF id \in DOMAIN map /\ inReach THEN 1 ELSE 0

\* socket.on("playerAttacked"): a connected client is told that id has attacked
OnPlayerAttacked(id, inReach) ==
    /\ connected
    /\ localHits < MaxHits
    /\ localHits' = localHits + AttackDamage(remotePlayersMap, id, inReach)
    /\ req' = Request("playerAttacked", id, inReach)
    /\ out' = <<>>
    /\ UNCHANGED <<remoteVars, limiterVars>>
    /\ UNCHANGED <<serverVars, mirrorVars>>

\* The messages about remote sessions on their own: they join, move, attack
\* and leave while the client's socket connects and disconnects; the models
\* of the sessions stay loading.
AttackNext ==
    \/ ClientConnect
    \/ ClientDisconnect
    \/ \E f \in [present -> RemoteTransforms] : OnExistingPlayers(f)
    \/ \E id \in RemoteIds, data \in RemoteTransforms : OnPlayerJoined(id, data)
    \/ \E id \in RemoteIds, data \in RemoteTransforms : OnPlayerMoved(id, data)
    \/ \E id \in RemoteIds : OnPlayerLeft(id)
    \/ \E id \in RemoteIds, inReach \in BOOLEAN : OnPlayerAttacked(id, inReach)

AttackSpec == Init /\ [][AttackNext]_vars

\* ====================================================== clients of sessions
\* Every session is the socket of a client.  A step of the server is followed
\* by a step in which the clients run their handlers for what it emitted; the
\* clients send their next request after that.

\* the last step of the server has been processed by the clients
Quiescent == req.op \in {"init", "delivered"}

HasClient(s) == \E c \in Clients : socketOf[c] = s

ClientOf(s) == CHOOSE c \in Clients : socketOf[c] = s

\* LobbyManager.leaveLobby forgets the lobby when it sends the request
LobbyManagerSent(m, s, r) ==
    IF r.op = "leaveLobby" /\ r.sid = s THEN [m EXCEPT !.currentLobby = None] ELSE m

\* LobbyManager.setupSocketListeners: lobbyJoined sets the lobby and the host
\* flag, lobbyUpdated sets the lobby, the other messages set neither
LobbyManagerOn(m, s, msg) ==
    IF msg.type = "lobbyJoined"
    THEN [currentLobby |-> msg.body.id, isHost |-> (msg.body.hostId = s)]
    ELSE IF msg.type = "lobbyUpdated"
    THEN [m EXCEPT !.currentLobby = msg.body.id]
    ELSE m

\* MultiplayerManager: hostAssigned sets the host flag, gameStarted the game
\* flag; existingPlayers and playerJoined add remote players, playerLeft
\* removes one
MultiplayerOn(m, s, msg) ==
    IF msg.type = "hostAssigned"
    THEN [m EXCEPT !.isHost = msg.body]
    ELSE IF msg.type = "gameStarted"
    THEN [m EXCEPT !.inGame = TRUE]
    ELSE IF msg.type = "existingPlayers"
    THEN [m EXCEPT !.remotes = @ \cup {msg.body[i].id : i \in DOMAIN msg.body}]
    ELSE IF msg.type = "playerJoined"
    THEN [m EXCEPT !.remotes = @ \cup {msg.body.id}]
    ELSE IF msg.type = "playerLeft"
    THEN [m EXCEPT !.remotes = @ \ {msg.body}]
    ELSE m

\* the handlers of one client run for the messages sent to its socket, in order
RECURSIVE LobbyManagerAfter(_, _, _, _)
LobbyManagerAfter(m, s, emits, i) ==
    IF i > Len(emits)
    THEN m
    ELSE LobbyManagerAfter(IF s \in emits[i].to THEN LobbyManagerOn(m, s, emits[i]) ELSE m,
                           s, emits, i + 1)

RECURSIVE MultiplayerAfter(_, _, _, _)
MultiplayerAfter(m, s, emits, i) ==
    IF i > Len(emits)
    THEN m
    ELSE MultiplayerAfter(IF s \in emits[i].to THEN MultiplayerOn(m, s, emits[i]) ELSE m,
                          s, emits, i + 1)

\* what a client believes
Beliefs(c) == <<lobbyManager[c], multiplayer[c]>>

\* the clients without a socket that can take the next one: clients that
\* believe the same are interchangeable, the lowest of them stands for all
FreeClients ==
    {c \in Clients :
        /\ socketOf[c] = None
        /\ \A d \in Clients : (d < c /\ socketOf[d] = None) => Beliefs(d) # Beliefs(c)}

\* A client gets the socket the server has just accepted: its first
\* connection, or a reconnect after its last socket was closed.  What the
\* client believed before stays as it was.
ClientConnected(c) ==
    /\ req.op = "connection"
    /\ c \in FreeClients
    /\ socketOf' = [socketOf EXCEPT ![c] = req.sid]
    /\ req' = Request("delivered", req.sid, None)
    /\ out' = <<>>
    /\ UNCHANGED <<lobbyManager, multiplayer>>
    /\ UNCHANGED <<serverVars, remoteVars, limiterVars, avatarVars>>

\* The clients process the last step of the server.  The client whose socket
\* was closed runs its disconnect handler (clearRemotePlayers) and has no
\* socket any more; every other client runs its handlers for the messages sent
\* to its socket.
ClientsReceive ==
    /\ ~Quiescent
    /\ req.op # "connection"
    /\ socketOf' = [c \in Clients |->
                      IF req.op = "disconnect" /\ socketOf[c] = req.sid
                      THEN None ELSE socketOf[c]]
    /\ lobbyManager' = [c \in Clients |->
                          IF socketOf'[c] = None
                          THEN lobbyManager[c]
                          ELSE LobbyManagerAfter(
                                   LobbyManagerSent(lobbyManager[c], socketOf[c], req),
                                   socketOf[c], out, 1)]
    /\ multiplayer' = [c \in Clients |->
                         IF socketOf[c] = None
                         THEN multiplayer[c]
                         ELSE IF socketOf'[c] = None
                         THEN [multiplayer[c] EXCEPT !.remotes = {}]
                         ELSE MultiplayerAfter(multiplayer[c], socketOf[c], out, 1)]
    /\ req' = Request("delivered", req.sid, None)
    /\ out' = <<>>
    /\ UNCHANGED <<serverVars, remoteVars, limiterVars, avatarVars>>

\* LobbyManager.leaveLobby sends only when the client has a lobby
MaySendLeaveLobby(s) ==
    HasClient(s) /\ lobbyManager[ClientOf(s)].currentLobby # None

\* LobbyManager.kickPlayer sends only when the client believes it is host, and
\* the lobby view offers no button to kick oneself
MaySendKickPlayer(s, playerId) ==
    HasClient(s) /\ lobbyManager[ClientOf(s)].isHost /\ playerId # s

\* LobbyManager.startGame sends only from a host that has a lobby
MaySendStartGame(s) ==
    /\ HasClient(s)
    /\ lobbyManager[ClientOf(s)].isHost
    /\ lobbyManager[ClientOf(s)].currentLobby # None

\* The lobby handlers of the server with the clients of the sessions: the
\* clients send what LobbyManager lets them send, and each step of the server
\* is processed by the clients before the next request.
MirrorNext ==
    \/ \E s \in Sessions : Quiescent /\ Connect(s)
    \/ \E c \in Clients : ClientConnected(c)
    \/ ClientsReceive
    \/ \E s \in Sessions : Quiescent /\ HasClient(s) /\ CreateLobby(s, 0)
    \/ \E s \in Sessions, l \in LobbyIds : Quiescent /\ HasClient(s) /\ JoinLobby(s, l)
    \/ \E s \in Sessions : Quiescent /\ MaySendLeaveLobby(s) /\ LeaveLobby(s)
    \/ \E s \in Sessions, playerId \in Sessions :
          Quiescent /\ MaySendKickPlayer(s, playerId) /\ KickPlayer(s, playerId)
    \/ \E s \in Sessions : Quiescent /\ MaySendStartGame(s) /\ StartGame(s)
    \/ \E s \in Sessions : Quiescent /\ Disconnect(s)

MirrorSpec == Init /\ [][MirrorNext]_vars

\* the join a client sends without a lobby: on every reconnect, and from
\* joinGame
PlainJoin == [position |-> Missing, rotation |-> Missing]

\* The global path with the clients of the sessions: clients connect, join,
\* lose their socket and reconnect, and each step of the server is processed
\* by the clients before the next request.
HostMirrorNext ==
    \/ \E s \in Sessions : Quiescent /\ Connect(s)
    \/ \E c \in Clients : ClientConnected(c)
    \/ ClientsReceive
    \/ \E s \in Sessions : Quiescent /\ HasClient(s) /\ Join(s, PlainJoin, 1)
    \/ \E s \in Sessions : Quiescent /\ Disconnect(s)

HostMirrorSpec == Init /\ [][HostMirrorNext]_vars

\* the sessions of two games that run side by side
NumSessionsTwoGames == 4

SessionsTwoGames == 1..NumSessionsTwoGames

\* joinGame, which the gameStarted listener of MultiplayerManager calls
MaySendJoin(s) == HasClient(s) /\ multiplayer[ClientOf(s)].inGame

\* Two lobbies that play at the same time: clients connect, create and join
\* lobbies, the hosts start the games, and every client of a started game
\* sends join.  No one leaves.
IsolationNext ==
    \/ \E s \in SessionsTwoGames : Quiescent /\ Connect(s)
    \/ \E c \in Clients : ClientConnected(c)
    \/ ClientsReceive
    \/ \E s \in SessionsTwoGames : Quiescent /\ HasClient(s) /\ CreateLobby(s, 0)
    \/ \E s \in SessionsTwoGames, l \in LobbyIdsTwo :
          Quiescent /\ HasClient(s) /\ JoinLobby(s, l)
    \/ \E s \in SessionsTwoGames : Quiescent /\ MaySendStartGame(s) /\ StartGame(s)
    \/ \E s \in SessionsTwoGames : Quiescent /\ MaySendJoin(s) /\ Join(s, PlainJoin, 1)

IsolationSpec == InitTwoLobbies /\ [][IsolationNext]_vars

\* the shape of the server state
TypeOK ==
    /\ clientSockets \subseteq Sessions
    /\ gone \subseteq Sessions
    /\ clientSockets \cap gone = {}
    /\ DOMAIN lobbies \subseteq DOMAIN rooms
    /\ \A l \in DOMAIN lobbies :
          /\ lobbies[l].id = l
          /\ lobbies[l].hostId \in Sessions
          /\ Ids(lobbies[l].players) \subseteq Sessions
          /\ lobbies[l].inGame \in BOOLEAN
    /\ DOMAIN playerLobbyMap \subseteq Sessions
    /\ \A s \in DOMAIN playerLobbyMap : playerLobbyMap[s] \in DOMAIN rooms
    /\ activeGames \subseteq DOMAIN rooms
    /\ Ids(players) \subseteq Sessions
    /\ DOMAIN transforms = Ids(players)
    /\ DOMAIN colors = Ids(players)
    /\ \A s \in DOMAIN colors : colors[s] \in RandomColorChoices
    /\ \A s \in DOMAIN transforms : transforms[s] \in Transforms
    /\ hostId \in Sessions \cup {None}

\* ================================================================ claims
\* helpers of the formulas below
Members(lobby) == Ids(lobby.players)

\* 1-based position of id in a duplicate-free list
IndexOf(seq, id) == CHOOSE i \in DOMAIN seq : seq[i] = id

OutOfType(emits, type) == {i \in DOMAIN emits : emits[i].type = type}

\* the emission is one lobbyError, delivered to s alone
OnlyErrorTo(emits, s) ==
    /\ Len(emits) = 1
    /\ emits[1].type = "lobbyError"
    /\ emits[1].to = {s}

\* C1: in every reachable state, every lobby's hostId, if non-null, is the id
\* of a session in that lobby's member list.
C1_HostIsMember ==
    \A l \in DOMAIN lobbies :
        lobbies[l].hostId = None \/ lobbies[l].hostId \in Members(lobbies[l])

\* C2: in every reachable state, no lobby in the lobby map has an empty
\* member list (a lobby is destroyed when its membership reaches zero).
C2_NoEmptyLobby ==
    \A l \in DOMAIN lobbies : Len(lobbies[l].players) > 0

\* C3: when the host of a lobby departs by leaveLobby or disconnect and at
\* least one member remains, the new hostId is the remaining member that
\* joined earliest: it precedes every other remaining member in join order.
C3_HostMigratesToOldest ==
    [][\A l \in DOMAIN lobbies :
         LET s == req'.sid
             before == lobbies[l].players
         IN
         ( /\ req'.op \in {"leaveLobby", "disconnect"}
           /\ s \in Members(lobbies[l])
           /\ lobbies[l].hostId = s
           /\ Members(lobbies[l]) \ {s} # {} )
         =>
         ( /\ l \in DOMAIN lobbies'
           /\ lobbies'[l].hostId \in Members(lobbies[l]) \ {s}
           /\ \A m \in Members(lobbies[l]) \ {s} :
                 IndexOf(before, lobbies'[l].hostId) <= IndexOf(before, m) )
      ]_vars

\* C3 witness: a host has just departed from a lobby in which two members
\* remain, and the promoted one was sent its own lobbyUpdated.
C3_Witness ==
    /\ req.op \in {"leaveLobby", "disconnect"}
    /\ \E l \in DOMAIN lobbies :
          /\ Len(lobbies[l].players) >= 2
          /\ Len(out) >= 1
          /\ out[1].type = "lobbyUpdated"
          /\ out[1].to = {lobbies[l].hostId}
          /\ lobbies[l].hostId # req.sid

\* C4: a successful startGame on a lobby with N >= 2 members marks exactly
\* one member as gorilla and all others as human, and one gameStarted message,
\* delivered to every one of the N members, carries all N id -> role mappings.
C4_OneGorillaAllMappings ==
    [][LET s == req'.sid IN
       ( /\ req'.op = "startGame"
         /\ HasLobby(s)
         /\ lobbies[playerLobbyMap[s]].hostId = s
         /\ Len(lobbies[playerLobbyMap[s]].players) >= 2 )
       =>
       LET l == playerLobbyMap[s]
           members == lobbies[l].players
           started == OutOfType(out', "gameStarted")
       IN
       /\ Cardinality(started) = 1
       /\ \A i \in started :
             LET roles == out'[i].body.roles IN
             /\ out'[i].to = Ids(members)
             /\ Len(roles) = Len(members)
             /\ \A m \in Ids(members) :
                   Cardinality({j \in DOMAIN roles : roles[j].id = m}) = 1
             /\ Cardinality({j \in DOMAIN roles : roles[j].isGorilla}) = 1
             /\ Cardinality({j \in DOMAIN roles : ~roles[j].isGorilla})
                   = Len(members) - 1
      ]_vars

\* C4 witness: a game has just been started in a lobby of three members.
C4_Witness ==
    /\ req.op = "startGame"
    /\ Len(out) >= 1
    /\ out[1].type = "gameStarted"
    /\ Len(out[1].body.roles) = 3
    /\ Cardinality(out[1].to) = 3

\* C5: after a lobby has become InProgress, no later startGame produces a
\* second gameStarted broadcast or a second role assignment for it: the
\* member made gorilla never changes after game start.
C5_RolesAssignedOnce ==
    [][\A l \in DOMAIN lobbies :
         lobbies[l].inGame =>
           /\ \A i \in OutOfType(out', "gameStarted") :
                 ~(req'.op = "startGame" /\ out'[i].body.lobbyId = l)
           /\ (l \in DOMAIN lobbyGorilla /\ l \in DOMAIN lobbyGorilla')
                 => lobbyGorilla'[l] = lobbyGorilla[l]
      ]_vars

\* C6: in every reachable state, each started lobby that still exists has
\* exactly one gorilla among its current members.
C6_OneGorillaPerStartedLobby ==
    \A l \in DOMAIN lobbies :
        lobbies[l].inGame =>
            Cardinality({m \in Members(lobbies[l]) :
                            l \in DOMAIN lobbyGorilla /\ lobbyGorilla[l] = m}) = 1

\* C7: a kickPlayer from a session that is in a lobby but is not its host is
\* answered by an error to the requester alone, and the lobbies (member lists,
\* hostId), the session-to-lobby map and the rooms are unchanged.
C7_NonHostKickRejected ==
    [][LET s == req'.sid IN
       ( /\ req'.op = "kickPlayer"
         /\ HasLobby(s)
         /\ lobbies[playerLobbyMap[s]].hostId # s )
       =>
       ( /\ OnlyErrorTo(out', s)
         /\ lobbies' = lobbies
         /\ playerLobbyMap' = playerLobbyMap
         /\ rooms' = rooms )
      ]_vars

\* C7 witness: a non-host member has just asked to kick another member of
\* its lobby and got the error.
C7_Witness ==
    /\ req.op = "kickPlayer"
    /\ OnlyErrorTo(out, req.sid)
    /\ out[1].body = "Only the host can kick players."
    /\ HasLobby(req.sid)
    /\ req.arg \in Members(lobbies[playerLobbyMap[req.sid]]) \ {req.sid}

\* C8: startGame is accepted only from the lobby's host and only with at
\* least 2 members; otherwise the requester alone gets an error, the lobby is
\* as it was (an Open lobby stays Open), no role is assigned and no
\* gameStarted is sent to anyone.
C8_StartGameGuarded ==
    [][LET s == req'.sid
           accepted == /\ HasLobby(s)
                       /\ lobbies[playerLobbyMap[s]].hostId = s
                       /\ Len(lobbies[playerLobbyMap[s]].players) >= 2
       IN
       req'.op = "startGame" =>
         /\ (OutOfType(out', "gameStarted") # {} => accepted)
         /\ ~accepted =>
              /\ OnlyErrorTo(out', s)
              /\ (HasLobby(s) /\ lobbies[playerLobbyMap[s]].hostId # s)
                    => out'[1].body = "Only the host can start the game."
              /\ (HasLobby(s) /\ lobbies[playerLobbyMap[s]].hostId = s)
                    => out'[1].body = "Need at least 2 players to start the game."
              /\ lobbies' = lobbies
              /\ lobbyGorilla' = lobbyGorilla
              /\ gorillaPlayerId' = gorillaPlayerId
              /\ activeGames' = activeGames
      ]_vars

\* C8 witness: a member that is not the host of its two-member Open lobby
\* has just been refused startGame.
C8_Witness ==
    /\ req.op = "startGame"
    /\ OnlyErrorTo(out, req.sid)
    /\ out[1].body = "Only the host can start the game."
    /\ HasLobby(req.sid)
    /\ Len(lobbies[playerLobbyMap[req.sid]].players) >= 2
    /\ ~lobbies[playerLobbyMap[req.sid]].inGame

\* C8 witness of the other failure: the host alone in its lobby was refused.
C8_WitnessInsufficient ==
    /\ req.op = "startGame"
    /\ OnlyErrorTo(out, req.sid)
    /\ out[1].body = "Need at least 2 players to start the game."

\* C9: joinLobby fails when the requester is already mapped to a lobby
\* (AlreadyInLobby), the lobby id does not exist (LobbyNotFound), the member
\* count has reached maxPlayers (LobbyFull) or the lobby is InProgress
\* (GameAlreadyStarted); the error names a condition that holds, goes to the
\* requester alone, and neither the lobbies nor the session-to-lobby map change.
C9_JoinFailures ==
    [][LET s == req'.sid
           l == req'.arg
           already == s \in DOMAIN playerLobbyMap
           notFound == l \notin DOMAIN lobbies
           full == ~notFound /\ Len(lobbies[l].players) >= lobbies[l].maxPlayers
           started == ~notFound /\ lobbies[l].inGame
       IN
       (req'.op = "joinLobby" /\ (already \/ notFound \/ full \/ started))
       =>
       /\ OnlyErrorTo(out', s)
       /\ \/ already /\ out'[1].body = "You are already in a lobby. Leave it first."
          \/ notFound /\ out'[1].body = "Lobby not found."
          \/ full /\ out'[1].body = "Lobby is full."
          \/ started /\ out'[1].body = "Game already in progress."
       /\ lobbies' = lobbies
       /\ playerLobbyMap' = playerLobbyMap
      ]_vars

\* C9 witness: a session in no lobby has just been refused by a lobby that
\* is InProgress and not full.
C9_Witness ==
    /\ req.op = "joinLobby"
    /\ OnlyErrorTo(out, req.sid)
    /\ out[1].body = "Game already in progress."
    /\ req.arg \in DOMAIN lobbies
    /\ Len(lobbies[req.arg].players) < lobbies[req.arg].maxPlayers

\* C10: a successful joinLobby appends the joiner at the end of the member
\* list, and every member of the lobby, the joiner included, is sent the full
\* updated lobby (all members and hostId); every lobby message of the step
\* carries that full lobby, none a delta.
C10_JoinAppendsAndBroadcasts ==
    [][LET s == req'.sid
           l == req'.arg
       IN
       ( /\ req'.op = "joinLobby"
         /\ s \notin DOMAIN playerLobbyMap
         /\ l \in DOMAIN lobbies
         /\ Len(lobbies[l].players) < lobbies[l].maxPlayers
         /\ ~lobbies[l].inGame )
       =>
       /\ l \in DOMAIN lobbies'
       /\ lobbies'[l].players = lobbies[l].players \o <<s>>
       /\ lobbies'[l].hostId = lobbies[l].hostId
       /\ playerLobbyMap' = Put(playerLobbyMap, s, l)
       /\ \A m \in Members(lobbies'[l]) :
             \E i \in OutOfType(out', "lobbyUpdated") : m \in out'[i].to
       /\ \A i \in OutOfType(out', "lobbyUpdated") \cup OutOfType(out', "lobbyJoined") :
             /\ out'[i].body = lobbies'[l]
             /\ out'[i].to \subseteq Members(lobbies'[l])
      ]_vars

\* C10 witness: a third member has just joined a lobby and the roster went
\* to all three.
C10_Witness ==
    /\ req.op = "joinLobby"
    /\ Len(out) = 3
    /\ out[2].type = "lobbyUpdated"
    /\ Cardinality(out[2].to) = 3
    /\ Len(out[2].body.players) = 3
    /\ out[2].body.players[3] = req.sid

\* C11: createLobby from a session that is a member of some lobby fails with
\* AlreadyInLobby and changes nothing; otherwise it adds exactly one lobby,
\* Open, whose member list is <<owner>> and whose hostId is the owner.
C11_CreateLobby ==
    [][LET s == req'.sid
           member == \E l \in DOMAIN lobbies : s \in Members(lobbies[l])
           created == DOMAIN lobbies' \ DOMAIN lobbies
       IN
       req'.op = "createLobby" =>
         /\ member =>
              /\ OnlyErrorTo(out', s)
              /\ out'[1].body = "You are already in a lobby. Leave it first."
              /\ lobbies' = lobbies
              /\ playerLobbyMap' = playerLobbyMap
              /\ rooms' = rooms
         /\ ~member =>
              /\ Cardinality(created) = 1
              /\ \A l \in DOMAIN lobbies : l \in DOMAIN lobbies' /\ lobbies'[l] = lobbies[l]
              /\ \A l \in created :
                    /\ lobbies'[l].players = <<s>>
                    /\ lobbies'[l].hostId = s
                    /\ ~lobbies'[l].inGame
                    /\ playerLobbyMap' = Put(playerLobbyMap, s, l)
      ]_vars

\* C11 witness: a member of a two-member lobby has just been refused
\* createLobby while an unused lobby id was there to be drawn.
C11_Witness ==
    /\ req.op = "createLobby"
    /\ OnlyErrorTo(out, req.sid)
    /\ UnusedLobbyIds # {}
    /\ \E l \in DOMAIN lobbies :
          req.sid \in Members(lobbies[l]) /\ Len(lobbies[l].players) = 2

\* C13: Open -> InProgress is one-way: a lobby that is InProgress is, in the
\* next state, either destroyed or still InProgress, and it has admitted no
\* new member.
C13_InProgressOneWay ==
    [][\A l \in DOMAIN lobbies :
         (lobbies[l].inGame /\ l \in DOMAIN lobbies') =>
            /\ lobbies'[l].inGame
            /\ Members(lobbies'[l]) \subseteq Members(lobbies[l])
      ]_vars

\* C13 witness: a lobby that is InProgress has just lost a member and goes
\* on, InProgress, with the one member left.
C13_Witness ==
    /\ req.op \in {"leaveLobby", "disconnect", "kickPlayer"}
    /\ \E l \in DOMAIN lobbies :
          /\ lobbies[l].inGame
          /\ Len(lobbies[l].players) = 1
          /\ req.sid \notin Members(lobbies[l])

\* C14: in every reachable state a lobby whose maxPlayers is at least 1 has
\* no more members than maxPlayers.
C14_CapacityRespected ==
    \A l \in DOMAIN lobbies :
        lobbies[l].maxPlayers >= 1 => Len(lobbies[l].players) <= lobbies[l].maxPlayers

\* C14 witness: a lobby created with maxPlayers = 2 holds two members and a
\* third session has just been refused.
C14_Witness ==
    /\ req.op = "joinLobby"
    /\ OnlyErrorTo(out, req.sid)
    /\ out[1].body = "Lobby is full."
    /\ \E l \in DOMAIN lobbies :
          lobbies[l].maxPlayers = 2 /\ Len(lobbies[l].players) = 2

\* C15: when the departing member was the host and somebody remains, the
\* promoted member is sent a host-change notification whose message type is
\* not the type of the roster update sent to all remaining members.
C15_HostChangeNotified ==
    [][\A l \in DOMAIN lobbies :
         LET s == req'.sid IN
         ( /\ req'.op \in {"leaveLobby", "disconnect"}
           /\ s \in Members(lobbies[l])
           /\ lobbies[l].hostId = s
           /\ Members(lobbies[l]) \ {s} # {} )
         =>
         \E i \in DOMAIN out' :
            /\ l \in DOMAIN lobbies'
            /\ lobbies'[l].hostId \in out'[i].to
            /\ out'[i].type \notin {"lobbyUpdated", "lobbiesList"}
      ]_vars

\* C16: a successful kick by the host (of another member) removes the target from the lobby and
\* from the session-to-lobby map, and the kicked session is sent a
\* notification whose type is neither the roster update nor the lobbyError
\* used for rejected requests.
C16_KickNotified ==
    [][LET s == req'.sid
           target == req'.arg
       IN
       ( /\ req'.op = "kickPlayer"
         /\ HasLobby(s)
         /\ lobbies[playerLobbyMap[s]].hostId = s
         /\ target # s
         /\ target \in Members(lobbies[playerLobbyMap[s]]) )
       =>
       LET l == playerLobbyMap[s] IN
       /\ l \in DOMAIN lobbies'
       /\ target \notin Members(lobbies'[l])
       /\ target \notin DOMAIN playerLobbyMap'
       /\ \E i \in DOMAIN out' :
             /\ target \in out'[i].to
             /\ out'[i].type \notin {"lobbyUpdated", "lobbiesList", "lobbyError"}
      ]_vars

\* C17: every refused createLobby, joinLobby, kickPlayer or startGame (a kick
\* or start from a session in no lobby included) is answered by one error,
\* sent to the requester and to nobody else.
C17_RefusalsAnswered ==
    [][LET s == req'.sid
           inLobby == HasLobby(s)
           isHost == inLobby /\ lobbies[playerLobbyMap[s]].hostId = s
           refused ==
             \/ req'.op = "createLobby" /\ s \in DOMAIN playerLobbyMap
             \/ /\ req'.op = "joinLobby"
                /\ \/ s \in DOMAIN playerLobbyMap
                   \/ req'.arg \notin DOMAIN lobbies
                   \/ Len(lobbies[req'.arg].players) >= lobbies[req'.arg].maxPlayers
                   \/ lobbies[req'.arg].inGame
             \/ /\ req'.op = "kickPlayer"
                /\ \/ ~isHost
                   \/ req'.arg \notin Members(lobbies[playerLobbyMap[s]])
             \/ /\ req'.op = "startGame"
                /\ \/ ~isHost
                   \/ Len(lobbies[playerLobbyMap[s]].players) < 2
       IN
       refused => OnlyErrorTo(out', s)
      ]_vars

\* C12: in every reachable state a session is in the member list of at most
\* one lobby and at most once in it, and playerLobbyMap has an entry for a
\* session exactly when the session is in the member list of the lobby the
\* entry names.
C12_OneLobbyPerSession ==
    /\ \A s \in Sessions :
          Cardinality({l \in DOMAIN lobbies : s \in Members(lobbies[l])}) <= 1
    /\ \A l \in DOMAIN lobbies :
          Cardinality(Members(lobbies[l])) = Len(lobbies[l].players)
    /\ \A s \in DOMAIN playerLobbyMap :
          /\ playerLobbyMap[s] \in DOMAIN lobbies
          /\ s \in Members(lobbies[playerLobbyMap[s]])
    /\ \A l \in DOMAIN lobbies :
          \A s \in Members(lobbies[l]) :
             s \in DOMAIN playerLobbyMap /\ playerLobbyMap[s] = l

\* C12 witness: two lobbies exist, one with two members and one with one,
\* after a member of one of them was refused by the other.
C12_Witness ==
    /\ Cardinality(DOMAIN lobbies) = 2
    /\ Cardinality(DOMAIN playerLobbyMap) = 3
    /\ req.op = "joinLobby"
    /\ OnlyErrorTo(out, req.sid)
    /\ req.sid \in DOMAIN playerLobbyMap
    /\ req.arg \in DOMAIN lobbies
    /\ playerLobbyMap[req.sid] # req.arg

\* C18: on the global path the first session registered becomes host; the
\* global hostId is null exactly when no session is registered and otherwise
\* names a registered session; when the host disconnects and other sessions
\* survive, one survivor becomes hostId and it alone is sent hostAssigned.
C18_GlobalHost ==
    [][ /\ (hostId' = None) <=> (players' = <<>>)
        /\ hostId' # None => hostId' \in Ids(players')
        /\ (req'.op = "join" /\ players = <<>>) =>
              /\ hostId' = req'.sid
              /\ \E i \in DOMAIN out' : out'[i] = Emit({req'.sid}, "hostAssigned", TRUE)
        /\ (req'.op = "disconnect" /\ req'.sid = hostId /\ Len(players) > 1) =>
              /\ hostId' \in Ids(players) \ {req'.sid}
              /\ hostId' \in clientSockets'
              /\ Cardinality(OutOfType(out', "hostAssigned")) = 1
              /\ \E i \in DOMAIN out' : out'[i] = Emit({hostId'}, "hostAssigned", TRUE)
      ]_vars

\* C18 witness: the host of a registry of three has just disconnected and a
\* survivor is host.
C18_Witness ==
    /\ req.op = "disconnect"
    /\ Len(players) = 2
    /\ hostId \in Ids(players)
    /\ \E i \in DOMAIN out : out[i] = Emit({hostId}, "hostAssigned", TRUE)

\* C19: a transform update of a session that is in a lobby is relayed, with
\* its position and rotation unmodified and stamped with the sender's id, to
\* exactly the other members of the sender's lobby: not to the sender, and not
\* to sessions of another lobby or of no lobby.
C19_RelayToLobby ==
    [][ (req'.op = "playerUpdate" /\ req'.sid \in Ids(players) /\ HasLobby(req'.sid)) =>
          LET s == req'.sid
              mates == Members(lobbies[playerLobbyMap[s]]) \ {s}
              moved == OutOfType(out', "playerMoved")
          IN  /\ \A i \in moved :
                    out'[i].body = [id |-> s, position |-> req'.arg.position,
                                    rotation |-> req'.arg.rotation]
              /\ UNION {out'[i].to : i \in moved} = mates
      ]_vars

\* C20: a transform update from a connection without a registered session
\* changes nothing in the registry, creates no record, and makes the server
\* send nothing, neither a relay nor an error.
C20_UnknownUpdateIgnored ==
    [][ (req'.op = "playerUpdate" /\ req'.sid \notin Ids(players)) =>
          /\ players' = players
          /\ transforms' = transforms
          /\ hostId' = hostId
          /\ out' = <<>>
      ]_vars

\* C20 witness: a connected session that never joined has just sent an update
\* while another session is registered and connected.
C20_Witness ==
    /\ req.op = "playerUpdate"
    /\ req.sid \in clientSockets
    /\ req.sid \notin Ids(players)
    /\ Ids(players) \cap clientSockets # {}
    /\ out = <<>>

\* the transform a join message asks for, defaults filled in
JoinTransform(data) ==
    [position |-> IF data.position = Missing THEN 0 ELSE data.position,
     rotation |-> IF data.rotation = Missing THEN 0 ELSE data.rotation]

\* every record but that of s is what it was
OthersKept(s) ==
    \A o \in DOMAIN transforms' \ {s} : o \in DOMAIN transforms /\ transforms'[o] = transforms[o]

\* C21 as stated: the stored transform of a session is that of its most recent
\* update, and its join transform only if it has sent no update; no message
\* of one session changes the stored transform of another.  (The clause for a
\* join that follows the session's own update is the one the code breaks.)
C21_LastUpdateWins ==
    [][ /\ (req'.op = "playerUpdate" /\ req'.sid \in Ids(players)) =>
              /\ transforms'[req'.sid] = req'.arg
              /\ OthersKept(req'.sid)
        /\ (req'.op = "join" /\ req'.sid \notin Ids(players)) =>
              /\ transforms'[req'.sid] = JoinTransform(req'.arg)
              /\ OthersKept(req'.sid)
        /\ (req'.op = "join" /\ req'.sid \in Ids(players)
              /\ req.op = "playerUpdate" /\ req.sid = req'.sid) =>
              /\ transforms'[req'.sid] = req.arg
              /\ OthersKept(req'.sid)
        /\ req'.op \notin {"playerUpdate", "join"} => OthersKept(None)
      ]_vars

\* C21 amended: the stored transform of a session is that of the most recent
\* join or update message received from it; no message of one session changes
\* the stored transform of another.
C21_LastWriteWins ==
    [][ /\ (req'.op = "playerUpdate" /\ req'.sid \in Ids(players)) =>
              /\ transforms'[req'.sid] = req'.arg
              /\ OthersKept(req'.sid)
        /\ (req'.op = "playerUpdate" /\ req'.sid \notin Ids(players)) =>
              transforms' = transforms
        /\ req'.op = "join" =>
              /\ transforms'[req'.sid] = JoinTransform(req'.arg)
              /\ OthersKept(req'.sid)
        /\ req'.op \notin {"playerUpdate", "join"} => OthersKept(None)
      ]_vars

\* C21 witness: a session has just overwritten its stored transform while
\* another registered session holds a different one.
C21_Witness ==
    /\ req.op = "playerUpdate"
    /\ req.sid \in Ids(players)
    /\ transforms[req.sid] = req.arg
    /\ \E o \in Ids(players) \ {req.sid} : transforms[o] # transforms[req.sid]

\* C22: the existingPlayers snapshot sent to a joining session holds every
\* session registered at that moment other than the joiner, each once and
\* with its stored transform, and no session that has been deregistered.
C22_SnapshotComplete ==
    req.op = "join" =>
        \E i \in DOMAIN out :
           /\ out[i].type = "existingPlayers"
           /\ out[i].to = {req.sid}
           /\ {out[i].body[k] : k \in DOMAIN out[i].body}
                 = {[id |-> o, position |-> transforms[o].position,
                     rotation |-> transforms[o].rotation] :
                       o \in Ids(players) \ {req.sid}}
           /\ Len(out[i].body) = Cardinality(Ids(players) \ {req.sid})
           /\ \A k \in DOMAIN out[i].body : out[i].body[k].id \notin gone

\* C22 witness: a third session has just joined and its snapshot names the
\* two sessions registered before it, one of them away from the origin.
C22_Witness ==
    /\ req.op = "join"
    /\ Len(players) = 3
    /\ players[3] = req.sid
    /\ \E i \in DOMAIN out : out[i].type = "existingPlayers" /\ Len(out[i].body) = 2
    /\ \E o \in Ids(players) \ {req.sid} : transforms[o] # [position |-> 0, rotation |-> 0]

\* C23: right after the disconnect handler of a session has run, the session
\* is in no registry, roster or table, and is host of nothing.
C23_DisconnectCleansUp ==
    req.op = "disconnect" =>
        LET s == req.sid IN
        /\ s \notin clientSockets
        /\ s \notin Ids(players)
        /\ s \notin DOMAIN transforms
        /\ s \notin DOMAIN playerLobbyMap
        /\ \A l \in DOMAIN lobbies : s \notin Members(lobbies[l])
        /\ \A l \in DOMAIN lobbies : lobbies[l].hostId # s
        /\ hostId # s

\* C27: the color of a session is a function of its id: registering the same
\* session id again gives it the color it had.
C27_ColorDeterministic ==
    [][ (req'.op = "join" /\ req'.sid \in DOMAIN colors) =>
            colors'[req'.sid] = colors[req'.sid] ]_vars

\* C26: at a timer tick where position x, y, z and rotation y all equal the
\* values last sent no playerUpdate is emitted, and the last-sent record
\* changes only when a message is emitted, to the transform emitted.
C26_NoRepeatedSend ==
    [][ req'.op = "tick" =>
          /\ (\E l \in lastSent :
                  /\ l.x = localTransform.x /\ l.y = localTransform.y
                  /\ l.z = localTransform.z /\ l.ry = localTransform.ry)
             => (out' = <<>> /\ lastSent' = lastSent)
          /\ out' = <<>> => lastSent' = lastSent
          /\ out' # <<>> =>
                /\ out' = <<Send("playerUpdate", localTransform)>>
                /\ lastSent' = {localTransform}
                /\ lastSent # {localTransform}
      ]_vars

\* C26 witness: the timer has just ticked on a transform that was sent
\* before, and nothing was sent.
C26_Witness ==
    /\ req.op = "tick"
    /\ connected
    /\ lastSent = {localTransform}
    /\ localTransform.z # 0
    /\ out = <<>>

\* the objects of the scene that were created for a remote session
ProxiesOf(sc, os, id) == {o \in sc : os[o].owner = id}

\* C24: once a connected client has processed playerLeft for a session, its
\* remote-player map has no entry for the session and its scene holds no
\* object made for it.
C24_LeftSessionTornDown ==
    [][ (req'.op = "playerLeft" /\ connected) =>
          /\ req'.sid \notin DOMAIN remotePlayersMap'
          /\ ProxiesOf(scene', objs', req'.sid) = {}
      ]_vars

\* C25: when the last waiting loader of a session that has left finishes, no
\* object made for the session is in the scene and the map has no entry for it.
C25_NoOrphanAfterLoad ==
    [][ ( /\ req'.op = "loaderPoll"
          /\ req'.sid \in left
          /\ \A ld \in loaders' : ld.id # req'.sid ) =>
          /\ req'.sid \notin DOMAIN remotePlayersMap'
          /\ ProxiesOf(scene', objs', req'.sid) = {}
      ]_vars

\* C28: for every session in the remote-player map exactly one object made
\* for it is in the scene.
C28_OneProxyPerSession ==
    \A id \in DOMAIN remotePlayersMap :
        Cardinality(ProxiesOf(scene, objs, id)) = 1

\* C29: right after a loader has put its Player into the map, the Player has
\* the transform that the object it replaces had at that moment.
C29_SwapKeepsTransform ==
    [][ ( /\ req'.op = "loaderPoll"
          /\ req'.sid \in DOMAIN remotePlayersMap
          /\ req'.sid \in DOMAIN remotePlayersMap'
          /\ remotePlayersMap'[req'.sid].obj = req'.arg.player ) =>
          objs'[req'.arg.player].transform
              = objs[remotePlayersMap[req'.sid].obj].transform
      ]_vars

\* C30: an update for a known session moves the object the map names for it,
\* that object is in the scene, no other object is touched, and as long as a
\* loader of the session is still waiting the object moved is a placeholder.
C30_UpdateHitsCanonical ==
    [][ ( /\ req'.op = "playerMoved"
          /\ connected
          /\ req'.sid \in DOMAIN remotePlayersMap ) =>
          LET o == remotePlayersMap[req'.sid].obj IN
          /\ remotePlayersMap' = remotePlayersMap
          /\ scene' = scene
          /\ o \in scene
          /\ objs'[o].transform = req'.arg
          /\ \A k \in DOMAIN objs \ {o} : objs'[k] = objs[k]
          /\ (\E ld \in loaders : ld.id = req'.sid) => objs[o].kind = "placeholder"
      ]_vars

\* C31: when a loader ends its wait for a session whose model has not loaded,
\* the map entry of the session stays as it was: it still names the
\* placeholder and is still marked as one.
C31_StaysOnPlaceholder ==
    [][ ( /\ req'.op = "loaderPoll"
          /\ req'.sid \in DOMAIN remotePlayersMap
          /\ remotePlayersMap[req'.sid].isPlaceholder
          /\ ~objs[req'.arg.player].model ) =>
          /\ req'.sid \in DOMAIN remotePlayersMap'
          /\ remotePlayersMap'[req'.sid] = remotePlayersMap[req'.sid]
      ]_vars

\* C33: at most one update timer runs at any time, whatever the client does;
\* a playerUpdate is sent only by a tick of the timer, only while the socket is
\* connected, and a tick sends at most one.
C33_OneTimerSoleTrigger ==
    /\ [](timers <= 1)
    /\ [][ (\E i \in DOMAIN out' : out'[i].type = "playerUpdate") =>
             /\ req'.op = "tick"
             /\ timers > 0
             /\ connected
             /\ Len(out') = 1
         ]_vars

\* C33 witness: joinGame has just restarted the timer that connect had
\* started, and one timer runs.
C33_Witness ==
    /\ req.op = "joinGame"
    /\ connected
    /\ inGame
    /\ updateInterval
    /\ timers = 1

\* C32: a playerMoved, playerLeft or playerAttacked that names an id the
\* client's map does not hold changes nothing on the client: no object is
\* created, the map and the scene stay as they are, and the local player takes
\* no damage.
C32_UnknownIdIgnored ==
    [][ ( /\ req'.op \in {"playerMoved", "playerLeft", "playerAttacked"}
          /\ connected
          /\ req'.sid \notin DOMAIN remotePlayersMap ) =>
          /\ UNCHANGED <<remotePlayersMap, scene, objs, loaders>>
          /\ localHits' = localHits
      ]_vars

\* C32 witness: an attack by a session that has left and is no longer in the
\* map has just been processed, with the local player in reach of where it was.
C32_Witness ==
    /\ req.op = "playerAttacked"
    /\ req.arg = TRUE
    /\ connected
    /\ req.sid \in left
    /\ req.sid \notin DOMAIN remotePlayersMap
    /\ \E o \in DOMAIN objs : objs[o].owner = req.sid
    /\ DOMAIN remotePlayersMap # {}
    /\ localHits = 0

\* C36: every id in activeGames is the id of a lobby that exists.
C36_ActiveGamesExist == activeGames \subseteq DOMAIN lobbies

\* C39: once no loader is waiting, every object in the scene that was made
\* for a remote session is the object the map names for that session.
C39_NoOrphanWhenQuiet ==
    loaders = {} =>
        \A o \in scene :
            /\ objs[o].owner \in DOMAIN remotePlayersMap
            /\ remotePlayersMap[objs[o].owner].obj = o

\* C34: when the clients have processed everything the server sent, the
\* client of a lobby member has its host flag set exactly if the member is the
\* lobby's hostId; so the member promoted after the host left has it set.
C34_HostFlagFollowsServer ==
    Quiescent =>
        \A c \in Clients :
            LET s == socketOf[c] IN
            (s # None /\ HasLobby(s)) =>
                (lobbyManager[c].isHost <=> lobbies[playerLobbyMap[s]].hostId = s)

\* C35: when the clients have processed a kick that the server carried out,
\* the client of the kicked session has no current lobby any more.
C35_KickClearsCurrentLobby ==
    [][ ( /\ req.op = "kickPlayer"
          /\ req'.op = "delivered"
          /\ req.arg # req.sid
          /\ HasClient(req.arg)
          /\ \E i \in DOMAIN out :
                out[i] = LobbyError(req.arg, "You were kicked from the lobby.") ) =>
          lobbyManager'[ClientOf(req.arg)].currentLobby = None
      ]_vars

\* C38: when the clients have processed everything the server sent, a
\* connected client whose session is registered believes it is host only if
\* its session is the server's hostId; so at most one client believes it.
C38_OneClientBelievesHost ==
    Quiescent =>
        \A c \in Clients :
            ( /\ socketOf[c] # None
              /\ socketOf[c] \in Ids(players)
              /\ multiplayer[c].isHost ) => socketOf[c] = hostId

\* C37: when the clients have processed everything the server sent, a client
\* whose session plays in a lobby holds no remote player that is in another
\* lobby.
C37_NoProxyAcrossLobbies ==
    Quiescent =>
        \A c \in Clients :
            LET s == socketOf[c] IN
            (s # None /\ HasLobby(s) /\ playerLobbyMap[s] \in activeGames) =>
                \A id \in multiplayer[c].remotes :
                    HasLobby(id) => playerLobbyMap[id] = playerLobbyMap[s]
====
